---------------------------- MODULE Spec2Model ----------------------------
(***************************************************************************)
(* Model of the request-execution core of ghz: runner/worker.go (Worker,   *)
(* runWorker, makeRequest, getMessages and the streaming helpers) and      *)
(* runner/call_template_data.go (execute, executeData, executeMetadata).   *)
(*                                                                         *)
(* A pool of Workers shares one request counter and one stop channel.     *)
(* Every Worker is a sequential process; its position in the code is pc.  *)
(* The receive goroutine that makeBidiRequest spawns is a second process  *)
(* of the Worker.  The results of the RPC transport (grpcdynamic.Stub) are *)
(* chosen nondeterministically at every transport operation.              *)
(*                                                                         *)
(* Spec is the run of the pool.  SpecLib applies the list-selecting        *)
(* template functions of execute (RoundRobin, RandomSlice) to bounded      *)
(* lists and contexts, with every outcome of rand.Intn.                    *)
(***************************************************************************)
EXTENDS Integers, Sequences, FiniteSets, TLC

(***************************************************************************)
(* Bounds of the model.                                                    *)
(***************************************************************************)
NumWorkers == 2   \* Workers of the pool
MaxReq == 2       \* nReq of the first Worker
ArrayLen == 2     \* messages of a payload that is a JSON array / a delimited binary set
MaxLen == 3       \* longest list a template function is applied to
MaxRn == 5        \* largest RequestNumber of a context a template function is called on

Workers == 1..NumWorkers

(***************************************************************************)
(* Errors.  Nil is Go's nil error; EOF is io.EOF.                          *)
(***************************************************************************)
Nil == "nil"
EOF == "EOF"
ErrTransport == "ErrTransport"    \* any other error of the RPC transport
ErrData == "ErrData"              \* createPayloadsFromJSON / createPayloadsFromBin
ErrMetadata == "ErrMetadata"      \* json.Unmarshal in executeMetadata
ErrExec == "ErrExec"              \* template execution error
ErrNoData == "ErrNoData"          \* "no data provided for request"

(***************************************************************************)
(* Texts (payloads, metadata).  A text is abstracted to what the code and  *)
(* its libraries distinguish: the shape of the text once the template      *)
(* actions are taken as string content (body), the kind of template action *)
(* it holds (action), and, for a text that a template expansion produced,  *)
(* the RequestNumber that was substituted (rn, 0 otherwise).               *)
(*   body:   "empty"   the empty text                                      *)
(*           "object"  one JSON object                                     *)
(*           "array"   a JSON array of ArrayLen objects                    *)
(*           "garbage" anything that does not decode                       *)
(*   action: "none"      no template action                                *)
(*           "field"     an action that evaluates, e.g. {{.RequestNumber}} *)
(*           "missing"   an action that fails at evaluation: {{.Something}}*)
(*           "malformed" an action that fails at parse time                *)
(***************************************************************************)
Text(b, a) == [body |-> b, action |-> a, rn |-> 0]
EmptyText == Text("empty", "none")
TextLen(t) == IF t.body = "empty" THEN 0 ELSE 1   \* len(text) > 0 is all the code asks


(***************************************************************************)
(* callTemplateData: the per-call context (the fields the model reads).    *)
(***************************************************************************)
newCallTemplateData(mtd, workerID, reqNum) ==
    [WorkerID |-> workerID, RequestNumber |-> reqNum,
     IsClientStreaming |-> mtd.cs, IsServerStreaming |-> mtd.ss]

(***************************************************************************)
(* The template functions of execute that select from a list ([]string).   *)
(* A Go index k is the position k + 1 of the sequence; values[s:e] is      *)
(* SubSeq(values, s + 1, e).  A result is the string or the slice the      *)
(* function returned, and its error.                                       *)
(***************************************************************************)
ErrValuesEmpty == "values is empty"
StrResult(f, v, e) == [fn |-> f, str |-> v, slice |-> <<>>, err |-> e]
SliceResult(f, v, e) == [fn |-> f, str |-> "", slice |-> v, err |-> e]

\* a draw that can also return n
randIntnInclusive(n) == 0..n

\* rand.Intn(n): any of 0..n-1
randIntn(n) == 0..(n - 1)

\* a selection by RequestNumber - 1
RoundRobinDec(td, values) ==
    IF Len(values) < 1
    THEN StrResult("RoundRobin", "", ErrValuesEmpty)
    ELSE StrResult("RoundRobin", values[((td.RequestNumber - 1) % Len(values)) + 1], Nil)

\* "RoundRobin": values[td.RequestNumber % int64(len(values))]
RoundRobin(td, values) ==
    IF Len(values) < 1
    THEN StrResult("RoundRobin", "", ErrValuesEmpty)
    ELSE StrResult("RoundRobin", values[(td.RequestNumber % Len(values)) + 1], Nil)

\* a slice that leaves coinciding draws as they are
RandomSliceNoAdjust(values, start, end) ==
    IF Len(values) < 1
    THEN SliceResult("RandomSlice", <<>>, ErrValuesEmpty)
    ELSE LET s == IF start > end THEN end ELSE start
             e == IF start > end THEN start ELSE end
         IN  SliceResult("RandomSlice", SubSeq(values, s + 1, e), Nil)

\* "RandomSlice"; start and end are the two values rand.Intn(len(values)) returned
RandomSlice(values, start, end) ==
    IF Len(values) < 1
    THEN SliceResult("RandomSlice", <<>>, ErrValuesEmpty)
    ELSE LET s == IF start > end THEN end
                  ELSE IF start = end /\ start # 0 THEN start - 1
                  ELSE start
             e == IF start > end THEN start
                  ELSE IF start = end /\ start = 0 THEN end + 1
                  ELSE end
         IN  SliceResult("RandomSlice", SubSeq(values, s + 1, e), Nil)

(***************************************************************************)
(* td.execute(data): template.Must(...Parse(data)) panics when the text    *)
(* does not parse; t.Execute returns an error when an action fails at     *)
(* evaluation; otherwise the buffer holds the expansion.                  *)
(***************************************************************************)
execute(td, data) ==
    CASE data.action = "malformed" -> [out |-> data, err |-> Nil, panic |-> TRUE]
      [] data.action = "missing"   -> [out |-> data, err |-> ErrExec, panic |-> FALSE]
      [] data.action = "field"     ->
            [out |-> [body |-> data.body, action |-> "none", rn |-> td.RequestNumber],
             err |-> Nil, panic |-> FALSE]
      [] OTHER                     -> [out |-> data, err |-> Nil, panic |-> FALSE]

(***************************************************************************)
(* td.executeData(data): the expansion, or the text itself when the       *)
(* execution failed; never an error.                                      *)
(***************************************************************************)
executeData(td, data) ==
    IF TextLen(data) > 0
    THEN LET r == execute(td, data)
         IN  [bytes |-> IF r.err = Nil THEN r.out ELSE data,
              err |-> Nil, panic |-> r.panic]
    ELSE [bytes |-> EmptyText, err |-> Nil, panic |-> FALSE]

\* a decoding that accepts any input
jsonUnmarshalMapLenient(input) == Nil

(***************************************************************************)
(* json.Unmarshal(input, &mdMap): only a JSON object decodes into a       *)
(* map[string]string.                                                     *)
(***************************************************************************)
jsonUnmarshalMap(input) == IF input.body = "object" THEN Nil ELSE ErrMetadata

NilMap == "nilmap"   \* the nil map

\* an executeMetadata that returns the error of a failed expansion
executeMetadataStrict(td, metadata) ==
    IF TextLen(metadata) > 0
    THEN LET r == execute(td, metadata)
             uerr == IF r.err # Nil THEN r.err ELSE jsonUnmarshalMap(r.out)
         IN  [md |-> IF uerr = Nil THEN r.out ELSE NilMap,
              err |-> uerr, panic |-> r.panic]
    ELSE [md |-> NilMap, err |-> Nil, panic |-> FALSE]

(***************************************************************************)
(* td.executeMetadata(metadata).  md is the text the returned map was      *)
(* decoded from, or "nilmap" for the nil map of an empty metadata text.   *)
(***************************************************************************)
executeMetadata(td, metadata) ==
    IF TextLen(metadata) > 0
    THEN LET r == execute(td, metadata)
             input == IF r.err = Nil THEN r.out ELSE metadata
             uerr == jsonUnmarshalMap(input)
         IN  [md |-> IF uerr = Nil THEN input ELSE NilMap,
              err |-> uerr, panic |-> r.panic]
    ELSE [md |-> NilMap, err |-> Nil, panic |-> FALSE]

(***************************************************************************)
(* Message lists ([]*dynamic.Message).  A slice is nil or not; id names    *)
(* the allocation (the Worker and the call that built it), so that two     *)
(* lists are the identical list only if they come from the same decoding. *)
(* A message is named by the text it was decoded from and its position.   *)
(***************************************************************************)
NilSlice == [nil |-> TRUE, id |-> <<>>, msgs |-> <<>>]
Slice(id, data, n) ==
    [nil |-> FALSE, id |-> id, msgs |-> [k \in 1..n |-> [src |-> data, idx |-> k]]]
Len0(sl) == Len(sl.msgs)

NumMessages(data) ==
    CASE data.body = "object" -> 1
      [] data.body = "array"  -> ArrayLen
      [] OTHER                -> 0

(***************************************************************************)
(* createPayloadsFromJSON(data, mtd): the messages of a JSON object or     *)
(* array; no message for the empty text; an error for anything else.      *)
(***************************************************************************)
createPayloadsFromJSON(id, data) ==
    IF data.body = "garbage"
    THEN [inputs |-> NilSlice, err |-> ErrData]
    ELSE [inputs |-> Slice(id, data, NumMessages(data)), err |-> Nil]

(***************************************************************************)
(* createPayloadsFromBin(binData, mtd): one or more messages, or an error. *)
(* The empty byte string decodes to one (empty) message.                  *)
(***************************************************************************)
createPayloadsFromBin(id, binData) ==
    IF binData.body = "garbage"
    THEN [inputs |-> NilSlice, err |-> ErrData]
    ELSE [inputs |-> Slice(id, binData,
                           IF binData.body = "empty" THEN 1 ELSE NumMessages(binData)),
          err |-> Nil]

(***************************************************************************)
(* State.                                                                  *)
(***************************************************************************)
VARIABLES
    config,          \* RunConfig: binary, dryRun, qps, data, metadata (read-only)
    mtd,             \* method descriptor: cs = IsClientStreaming, ss = IsServerStreaming
    arrayJSONData,   \* [w] Worker.arrayJSONData
    nReq,            \* [w] Worker.nReq
    reqCounter,      \* *Worker.reqCounter, the cell all Workers share
    stopCh,          \* number of values waiting in Worker.stopCh
    crashed,         \* the process died of a panic
    pc,              \* [w] position of the Worker in runWorker / makeRequest
    i,               \* [w] loop variable of runWorker
    err,             \* [w] runWorker's aggregate (multierr): the sequence of errors
    ret,             \* [w] value runWorker returned
    rErr,            \* [w] value makeRequest returned
    reqNum,          \* [w] makeRequest's reqNum
    inputs,          \* [w] makeRequest's inputs
    md,              \* [w] text the call's outgoing metadata was decoded from
    cachedMessages,  \* [w] Worker.cachedMessages
    inputIdx,        \* [w] makeRequest's inputIdx
    counter,         \* [w] counter of the streaming helper that is running
    serr,            \* [w] err of the streaming helper that is running
    terr,            \* [w] last error a transport operation or helper handed to makeRequest
    recvActive,      \* [w] calls of the Worker whose receive goroutine is running
    recvDone,        \* [w] the recvDone channel of the current bidi call is closed
    log,             \* [w] transport operations of the current call, in order
    calls,           \* [w] makeRequest invocations so far
    rets,            \* [w] values the makeRequest invocations returned, in order
    got,             \* [w] RequestNumbers the Worker obtained
    decodes,         \* [w] createPayloadsFromBin invocations so far
    tfail,           \* [w] a transport operation of the current call failed
    callsAtStop,     \* [w] makeRequest invocations when the stop signal was sent, -1 before
    fnValues,        \* the list a template function is applied to
    fnTd,            \* the callTemplateData the template is executed on
    fnDraws,         \* the values rand.Intn returned to the last function call, in order
    fnResult         \* what the last function call returned

vars == <<config, mtd, arrayJSONData, nReq, reqCounter, stopCh, crashed, pc, i, err, ret,
          rErr, reqNum, inputs, md, cachedMessages, inputIdx, counter, serr, terr,
          recvActive, recvDone, log, calls, rets, got, decodes, tfail, callsAtStop,
          fnValues, fnTd, fnDraws, fnResult>>

\* the state of the function library, which no step of a Worker touches
lib == <<fnValues, fnTd, fnDraws, fnResult>>

shared == <<config, mtd, arrayJSONData, nReq>>

(***************************************************************************)
(* Configurations the model starts from.                                   *)
(***************************************************************************)
DataTexts == {EmptyText, Text("object", "field"), Text("array", "missing"),
              Text("garbage", "none"), Text("object", "malformed")}
MetadataTexts == {EmptyText, Text("object", "field"), Text("object", "missing"),
                  Text("object", "malformed"), Text("garbage", "none"),
                  Text("garbage", "field")}
Variants == {<<>>, <<Text("object", "field"), Text("garbage", "none")>>}
Methods == [cs : BOOLEAN, ss : BOOLEAN]
Configs == [binary : BOOLEAN, dryRun : BOOLEAN, qps : {0, 1},
            data : DataTexts, metadata : MetadataTexts]

\* Runs the model explores: a single Worker (the others are given no request and
\* have returned), unpaced, under every configuration and every method; and the
\* whole pool (the first Worker with MaxReq requests, every other with one), paced
\* or not, on a unary method under the configurations of PoolConfigs.
Unary == [cs |-> FALSE, ss |-> FALSE]
PoolConfigs == {c \in Configs : /\ c.metadata = EmptyText
                                /\ c.data \in {Text("object", "field"), Text("garbage", "none")}}

InitRun ==
    \/ /\ nReq = [w \in Workers |-> IF w = 1 THEN MaxReq ELSE 0]
       /\ config \in {c \in Configs : c.qps = 0}
       /\ mtd \in Methods
       /\ \E v \in Variants : arrayJSONData = [w \in Workers |-> v]
    \/ /\ nReq = [w \in Workers |-> IF w = 1 THEN MaxReq ELSE 1]
       /\ config \in PoolConfigs
       /\ mtd = Unary
       /\ arrayJSONData = [w \in Workers |-> <<>>]

\* no template function has been called
NoResult == StrResult("none", "", Nil)
LibIdle ==
    /\ fnValues = <<>>
    /\ fnTd = newCallTemplateData(Unary, 1, 0)
    /\ fnDraws = <<>>
    /\ fnResult = NoResult

\* the Workers as they are constructed, before runWorker
InitWorkers ==
    /\ reqCounter = 0
    /\ stopCh = 0
    /\ crashed = FALSE
    /\ pc = [w \in Workers |-> IF nReq[w] = 0 THEN "done" ELSE "loop"]
    /\ i = [w \in Workers |-> 0]
    /\ err = [w \in Workers |-> <<>>]
    /\ ret = [w \in Workers |-> <<>>]
    /\ rErr = [w \in Workers |-> Nil]
    /\ reqNum = [w \in Workers |-> 0]
    /\ inputs = [w \in Workers |-> NilSlice]
    /\ md = [w \in Workers |-> NilMap]
    /\ cachedMessages = [w \in Workers |-> NilSlice]
    /\ inputIdx = [w \in Workers |-> 0]
    /\ counter = [w \in Workers |-> 0]
    /\ serr = [w \in Workers |-> Nil]
    /\ terr = [w \in Workers |-> Nil]
    /\ recvActive = [w \in Workers |-> {}]
    /\ recvDone = [w \in Workers |-> FALSE]
    /\ log = [w \in Workers |-> <<>>]
    /\ calls = [w \in Workers |-> 0]
    /\ rets = [w \in Workers |-> <<>>]
    /\ got = [w \in Workers |-> {}]
    /\ decodes = [w \in Workers |-> 0]
    /\ tfail = [w \in Workers |-> FALSE]
    /\ callsAtStop = [w \in Workers |-> -1]

Init == InitRun /\ InitWorkers /\ LibIdle

(***************************************************************************)
(* runWorker.                                                              *)
(***************************************************************************)
\* an aggregate that keeps the last error only
multierrKeepLast(e, r) == IF r = Nil THEN e ELSE <<r>>

\* multierr.Append(err, rErr): a nil error adds nothing
multierrAppend(e, r) == IF r = Nil THEN e ELSE Append(e, r)

\* a select that never takes the receive from stopCh
StopNeverObserved(ch) == FALSE

\* the select of runWorker: the receive from stopCh is taken whenever a value
\* waits in the channel, the default branch only otherwise
StopObserved(ch) == ch > 0

\* a stop branch that only leaves the select: the loop goes on
StopBranchBreaks(loopPc) == loopPc

\* "case <-w.stopCh: return nil": the stop branch leaves runWorker
StopBranch(loopPc) == "stopped"

\* "return nil" of the stop branch; "return err" after the loop
StopReturn(e) == <<>>
LoopReturn(e) == e

\* for i := 0; i < w.nReq; i++ { select { case <-w.stopCh: ... default: ... } }
RunWorkerLoop(w) ==
    /\ ~crashed
    /\ pc[w] = "loop"
    /\ IF i[w] >= nReq[w]
       THEN /\ pc' = [pc EXCEPT ![w] = "done"]
            /\ ret' = [ret EXCEPT ![w] = LoopReturn(err[w])]
            /\ UNCHANGED stopCh
       ELSE IF StopObserved(stopCh)
       THEN /\ stopCh' = stopCh - 1
            /\ pc' = [pc EXCEPT ![w] = StopBranch(pc[w])]
            /\ ret' = [ret EXCEPT ![w] = StopReturn(err[w])]
       ELSE /\ pc' = [pc EXCEPT ![w] = IF config.qps > 0 THEN "throttle" ELSE "makeRequest"]
            /\ UNCHANGED <<stopCh, ret>>
    /\ UNCHANGED <<shared, lib, callsAtStop,
                   reqCounter, crashed, i, err, rErr, reqNum, inputs, md,
                   cachedMessages, inputIdx, counter, serr, terr, recvActive, recvDone,
                   log, calls, got, decodes, tfail, rets>>

\* <-throttle: the pacing tick arrives
Throttle(w) ==
    /\ ~crashed
    /\ pc[w] = "throttle"
    /\ pc' = [pc EXCEPT ![w] = "makeRequest"]
    /\ UNCHANGED <<shared, lib, callsAtStop,
                   reqCounter, stopCh, crashed, i, err, ret, rErr, reqNum, inputs,
                   md, cachedMessages, inputIdx, counter, serr, terr, recvActive,
                   recvDone, log, calls, got, decodes, tfail, rets>>

\* err = multierr.Append(err, rErr); i++.  The locals of the call that returned
\* are dead: they are reset to their initial values.
AppendErr(w) ==
    /\ ~crashed
    /\ pc[w] = "append"
    /\ err' = [err EXCEPT ![w] = multierrAppend(err[w], rErr[w])]
    /\ i' = [i EXCEPT ![w] = i[w] + 1]
    /\ pc' = [pc EXCEPT ![w] = "loop"]
    /\ rErr' = [rErr EXCEPT ![w] = Nil]
    /\ reqNum' = [reqNum EXCEPT ![w] = 0]
    /\ inputs' = [inputs EXCEPT ![w] = NilSlice]
    /\ md' = [md EXCEPT ![w] = NilMap]
    /\ inputIdx' = [inputIdx EXCEPT ![w] = 0]
    /\ counter' = [counter EXCEPT ![w] = 0]
    /\ serr' = [serr EXCEPT ![w] = Nil]
    /\ terr' = [terr EXCEPT ![w] = Nil]
    /\ log' = [log EXCEPT ![w] = <<>>]
    /\ tfail' = [tfail EXCEPT ![w] = FALSE]
    /\ rets' = [rets EXCEPT ![w] = Append(rets[w], rErr[w])]
    /\ UNCHANGED <<shared, lib, callsAtStop,
                   reqCounter, stopCh, crashed, ret, cachedMessages, recvActive,
                   recvDone, calls, got, decodes>>

\* the orchestrator stops the run: it sends one value per Worker into the stop
\* channel, once
Stop ==
    /\ ~crashed
    /\ stopCh = 0
    /\ \A w \in Workers : pc[w] # "stopped"
    /\ \E w \in Workers : pc[w] # "done"
    /\ stopCh' = NumWorkers
    /\ callsAtStop' = calls
    /\ UNCHANGED <<shared, lib, reqCounter, crashed, pc, i, err, ret, rErr, reqNum, inputs, md,
                   cachedMessages, inputIdx, counter, serr, terr, recvActive, recvDone,
                   log, calls, got, decodes, tfail, rets>>

(***************************************************************************)
(* makeRequest, up to the dispatch.                                        *)
(***************************************************************************)
\* a fetch-and-add that hands out the value before the increment and stores nothing
atomicAddInt64Stale(cell, delta) == cell

\* atomic.AddInt64(w.reqCounter, 1): the new value
atomicAddInt64(cell, delta) == cell + delta

\* the payload source of the call (worker.go 72-81): a variant of arrayJSONData
\* (indexed from 1 here, from 0 in the code) or config.data
useArrayJSON(w) == ~config.binary /\ ~mtd.cs /\ Len(arrayJSONData[w]) > 0
\* a selection whose index is not decremented: RequestNumber 1 uses variant 1
inputDataOfNoDec(w, n) ==
    IF useArrayJSON(w)
    THEN arrayJSONData[w][(n % Len(arrayJSONData[w])) + 1]
    ELSE config.data

inputDataOf(w, n) ==
    IF useArrayJSON(w)
    THEN arrayJSONData[w][((n - 1) % Len(arrayJSONData[w])) + 1]
    ELSE config.data

\* a getMessages that never looks at the cache
getMessagesNoCache(cache, ctd, id, inputData) ==
    IF ~config.binary
    THEN LET d == executeData(ctd, inputData)
             r == createPayloadsFromJSON(id, d.bytes)
         IN  [inputs |-> r.inputs, err |-> r.err, panic |-> d.panic,
              cache |-> cache, bin |-> 0]
    ELSE LET r == createPayloadsFromBin(id, inputData)
         IN  [inputs |-> r.inputs, err |-> r.err, panic |-> FALSE,
              cache |-> IF r.err = Nil THEN r.inputs ELSE cache, bin |-> 1]

\* Worker.getMessages: cache is w.cachedMessages; the result carries the new cache
\* and whether createPayloadsFromBin ran
getMessages(cache, ctd, id, inputData) ==
    IF ~cache.nil
    THEN [inputs |-> cache, err |-> Nil, panic |-> FALSE, cache |-> cache, bin |-> 0]
    ELSE IF ~config.binary
    THEN LET d == executeData(ctd, inputData)
             r == createPayloadsFromJSON(id, d.bytes)
         IN  [inputs |-> r.inputs, err |-> r.err, panic |-> d.panic,
              cache |-> cache, bin |-> 0]
    ELSE LET r == createPayloadsFromBin(id, inputData)
         IN  [inputs |-> r.inputs, err |-> r.err, panic |-> FALSE,
              cache |-> IF r.err = Nil THEN r.inputs ELSE cache, bin |-> 1]

\* the dispatch of makeRequest (worker.go 115-132): where the call goes first,
\* where it goes after makeBidiRequest, and where after the input is selected
DispatchFirst == IF mtd.cs /\ mtd.ss THEN "bidiOpen"
                 ELSE IF mtd.cs THEN "clientOpen" ELSE "selectInput"
DispatchAfterBidi == IF mtd.cs THEN "clientOpen" ELSE "selectInput"
DispatchAfterClient == "selectInput"
DispatchAfterSelect == IF mtd.ss THEN "serverOpen" ELSE "invokeRpc"
DispatchAfterServer == "invokeRpc"

\* reqNum := atomic.AddInt64(w.reqCounter, 1); ctd := newCallTemplateData(...)
MakeRequestBegin(w) ==
    /\ ~crashed
    /\ pc[w] = "makeRequest"
    /\ LET n == atomicAddInt64(reqCounter, 1)
       IN  /\ reqCounter' = n
           /\ reqNum' = [reqNum EXCEPT ![w] = n]
           /\ got' = [got EXCEPT ![w] = got[w] \cup {n}]
    /\ calls' = [calls EXCEPT ![w] = calls[w] + 1]
    /\ pc' = [pc EXCEPT ![w] = "getMessages"]
    /\ UNCHANGED <<shared, lib, callsAtStop,
                   stopCh, crashed, i, err, ret, rErr, inputs, md, cachedMessages,
                   inputIdx, counter, serr, terr, recvActive, recvDone, log, decodes,
                   tfail, rets>>

\* a makeRequest without the dry-run exit
DryRunIgnored(c) == FALSE

\* "if w.config.dryRun { return nil }", after the messages are resolved
DryRunReturns(c) == c.dryRun

\* inputs, err = w.getMessages(ctd, ...); if err != nil return err;
\* if w.config.dryRun return nil
ResolveMessages(w) ==
    /\ ~crashed
    /\ pc[w] = "getMessages"
    /\ LET ctd == newCallTemplateData(mtd, w, reqNum[w])
           r == getMessages(cachedMessages[w], ctd, <<w, calls[w]>>,
                            inputDataOf(w, reqNum[w]))
       IN  /\ decodes' = [decodes EXCEPT ![w] = decodes[w] + r.bin]
           /\ IF r.panic
              THEN /\ crashed' = TRUE
                   /\ UNCHANGED <<pc, rErr, inputs, cachedMessages>>
              ELSE /\ cachedMessages' = [cachedMessages EXCEPT ![w] = r.cache]
                   /\ inputs' = [inputs EXCEPT ![w] = r.inputs]
                   /\ UNCHANGED crashed
                   /\ IF r.err # Nil
                      THEN /\ rErr' = [rErr EXCEPT ![w] = r.err]
                           /\ pc' = [pc EXCEPT ![w] = "append"]
                      ELSE IF DryRunReturns(config)
                      THEN /\ rErr' = [rErr EXCEPT ![w] = Nil]
                           /\ pc' = [pc EXCEPT ![w] = "append"]
                      ELSE /\ pc' = [pc EXCEPT ![w] = "metadata"]
                           /\ UNCHANGED rErr
    /\ UNCHANGED <<shared, lib, callsAtStop,
                   reqCounter, stopCh, i, err, ret, reqNum, md, inputIdx, counter,
                   serr, terr, recvActive, recvDone, log, calls, got, tfail, rets>>

\* mdMap, err := ctd.executeMetadata(...); if err != nil return err; the context
ResolveMetadata(w) ==
    /\ ~crashed
    /\ pc[w] = "metadata"
    /\ LET ctd == newCallTemplateData(mtd, w, reqNum[w])
           r == executeMetadata(ctd, config.metadata)
       IN  IF r.panic
           THEN /\ crashed' = TRUE
                /\ UNCHANGED <<pc, rErr, md>>
           ELSE /\ UNCHANGED crashed
                /\ IF r.err # Nil
                   THEN /\ rErr' = [rErr EXCEPT ![w] = r.err]
                        /\ pc' = [pc EXCEPT ![w] = "append"]
                        /\ UNCHANGED md
                   ELSE /\ md' = [md EXCEPT ![w] = r.md]
                        /\ pc' = [pc EXCEPT ![w] = DispatchFirst]
                        /\ UNCHANGED rErr
    /\ UNCHANGED <<shared, lib, callsAtStop,
                   reqCounter, stopCh, i, err, ret, reqNum, inputs, cachedMessages,
                   inputIdx, counter, serr, terr, recvActive, recvDone, log, calls, got,
                   decodes, tfail, rets>>

(***************************************************************************)
(* The RPC transport.  An operation of the log is its name and the index   *)
(* (from 0) of the message it carries, -1 when it carries none.           *)
(***************************************************************************)
Op(name, arg) == [op |-> name, arg |-> arg]
OpenResults == {Nil, ErrTransport}      \* InvokeRpc*, CloseSend, CloseAndReceive
SendResults == {Nil, EOF, ErrTransport} \* SendMsg
RecvResults == {"msg", EOF, ErrTransport} \* RecvMsg: a message, end of stream, a failure

\* a makeRequest that returns the error of the transport when there is one
MakeRequestReturnTransport(ownErr, transportErr) ==
    IF transportErr # Nil THEN transportErr ELSE ownErr

\* what makeRequest returns after the dispatch: "return err", its own err, while the
\* results of the helpers and of InvokeRpc are assigned to the blank identifier
MakeRequestReturn(ownErr, transportErr) == ownErr

(***************************************************************************)
(* makeBidiRequest.                                                        *)
(***************************************************************************)
\* a makeBidiRequest that never waits for the receive goroutine
BidiNeverWaits(e) == FALSE

\* after the send loop: "if err == nil { <-recvDone }"
BidiMustWait(e) == e = Nil

\* str, err := InvokeRpcBidiStream; the empty-input exit; go func() {...}()
BidiOpen(w) ==
    /\ ~crashed
    /\ pc[w] = "bidiOpen"
    /\ \E res \in OpenResults :
         IF res # Nil
         THEN /\ log' = [log EXCEPT ![w] = Append(log[w], Op("InvokeRpcBidiStream", -1))]
              /\ terr' = [terr EXCEPT ![w] = res]
              /\ tfail' = [tfail EXCEPT ![w] = TRUE]
              /\ pc' = [pc EXCEPT ![w] = DispatchAfterBidi]
              /\ UNCHANGED <<counter, serr, recvActive, recvDone>>
         ELSE IF inputs[w].nil \/ Len0(inputs[w]) = 0
         THEN \E cres \in OpenResults :
              /\ log' = [log EXCEPT ![w] = log[w] \o <<Op("InvokeRpcBidiStream", -1),
                                                        Op("CloseSend", -1)>>]
              /\ tfail' = [tfail EXCEPT ![w] = tfail[w] \/ cres # Nil]
              /\ pc' = [pc EXCEPT ![w] = DispatchAfterBidi]
              /\ UNCHANGED <<counter, serr, terr, recvActive, recvDone>>
         ELSE /\ log' = [log EXCEPT ![w] = Append(log[w], Op("InvokeRpcBidiStream", -1))]
              /\ counter' = [counter EXCEPT ![w] = 0]
              /\ serr' = [serr EXCEPT ![w] = Nil]
              /\ recvActive' = [recvActive EXCEPT ![w] = recvActive[w] \cup {calls[w]}]
              /\ recvDone' = [recvDone EXCEPT ![w] = FALSE]
              /\ pc' = [pc EXCEPT ![w] = "bidiSend"]
              /\ UNCHANGED <<terr, tfail>>
    /\ UNCHANGED <<shared, lib, callsAtStop,
                   reqCounter, stopCh, crashed, i, err, ret, rErr, reqNum, inputs,
                   md, cachedMessages, inputIdx, calls, got, decodes, rets>>

\* one iteration of "for err == nil": CloseSend when all is sent, else SendMsg
BidiSend(w) ==
    /\ ~crashed
    /\ pc[w] = "bidiSend"
    /\ IF counter[w] = Len0(inputs[w])
       THEN \E cres \in OpenResults :
            /\ log' = [log EXCEPT ![w] = Append(log[w], Op("CloseSend", -1))]
            /\ tfail' = [tfail EXCEPT ![w] = tfail[w] \/ cres # Nil]
            /\ pc' = [pc EXCEPT ![w] = "bidiWait"]
            /\ UNCHANGED <<counter, serr>>
       ELSE \E res \in SendResults :
            /\ log' = [log EXCEPT ![w] = Append(log[w], Op("SendMsg", counter[w]))]
            /\ serr' = [serr EXCEPT ![w] = res]
            /\ counter' = [counter EXCEPT ![w] = counter[w] + 1]
            /\ tfail' = [tfail EXCEPT ![w] = tfail[w] \/ res = ErrTransport]
            /\ pc' = [pc EXCEPT ![w] = IF res = Nil THEN "bidiSend" ELSE "bidiWait"]
    /\ UNCHANGED <<shared, lib, callsAtStop,
                   reqCounter, stopCh, crashed, i, err, ret, rErr, reqNum, inputs,
                   md, cachedMessages, inputIdx, terr, recvActive, recvDone, calls, got,
                   decodes, rets>>

\* "if err == nil { <-recvDone }; return nil"
BidiWait(w) ==
    /\ ~crashed
    /\ pc[w] = "bidiWait"
    /\ BidiMustWait(serr[w]) => recvDone[w]
    /\ pc' = [pc EXCEPT ![w] = DispatchAfterBidi]
    /\ UNCHANGED <<shared, lib, callsAtStop,
                   reqCounter, stopCh, crashed, i, err, ret, rErr, reqNum, inputs,
                   md, cachedMessages, inputIdx, counter, serr, terr, recvActive,
                   recvDone, log, calls, got, decodes, tfail, rets>>

\* the receive goroutine of call c: RecvMsg until it returns an error, then
\* close(recvDone).  A message received leaves the goroutine where it is.
BidiRecv(w, c) ==
    /\ ~crashed
    /\ c \in recvActive[w]
    /\ \E r \in RecvResults :
         IF r = "msg"
         THEN UNCHANGED <<recvActive, recvDone>>
         ELSE /\ recvActive' = [recvActive EXCEPT ![w] = recvActive[w] \ {c}]
              /\ recvDone' = [recvDone EXCEPT ![w] =
                                 IF c = calls[w] THEN TRUE ELSE recvDone[w]]
    /\ UNCHANGED <<shared, lib, callsAtStop,
                   reqCounter, stopCh, crashed, pc, i, err, ret, rErr, reqNum,
                   inputs, md, cachedMessages, inputIdx, counter, serr, terr, log, calls,
                   got, decodes, tfail, rets>>

(***************************************************************************)
(* makeClientStreamingRequest.                                             *)
(***************************************************************************)
\* str, err := InvokeRpcClientStream; counter := 0; the loop runs only if err == nil
ClientOpen(w) ==
    /\ ~crashed
    /\ pc[w] = "clientOpen"
    /\ \E res \in OpenResults :
         /\ log' = [log EXCEPT ![w] = Append(log[w], Op("InvokeRpcClientStream", -1))]
         /\ counter' = [counter EXCEPT ![w] = 0]
         /\ serr' = [serr EXCEPT ![w] = res]
         /\ tfail' = [tfail EXCEPT ![w] = tfail[w] \/ res # Nil]
         /\ pc' = [pc EXCEPT ![w] = IF res = Nil THEN "clientSend" ELSE DispatchAfterClient]
    /\ UNCHANGED <<shared, lib, callsAtStop,
                   reqCounter, stopCh, crashed, i, err, ret, rErr, reqNum, inputs,
                   md, cachedMessages, inputIdx, terr, recvActive, recvDone, calls, got,
                   decodes, rets>>

\* a send loop that takes io.EOF for any other error
ClientRemoteClosedNever(e) == FALSE

\* "if err == io.EOF { CloseAndReceive; break }": the server said "go away"
ClientRemoteClosed(e) == e = EOF

\* a send loop that goes one message past the end of the input
ClientAllSentLate(c, inputLen) == c = inputLen + 1

\* "if counter == inputLen { CloseAndReceive; break }"
ClientAllSent(c, inputLen) == c = inputLen

\* one iteration of "for err == nil": CloseAndReceive when there is nothing (more)
\* to send, else SendMsg, and CloseAndReceive when SendMsg returns io.EOF
ClientSend(w) ==
    /\ ~crashed
    /\ pc[w] = "clientSend"
    /\ IF \/ inputs[w].nil \/ Len0(inputs[w]) = 0
          \/ ClientAllSent(counter[w], Len0(inputs[w]))
       THEN \E cres \in OpenResults :
            /\ log' = [log EXCEPT ![w] = Append(log[w], Op("CloseAndReceive", -1))]
            /\ tfail' = [tfail EXCEPT ![w] = tfail[w] \/ cres # Nil]
            /\ pc' = [pc EXCEPT ![w] = DispatchAfterClient]
            /\ UNCHANGED <<counter, serr>>
       ELSE \E res \in SendResults :
            /\ serr' = [serr EXCEPT ![w] = res]
            /\ IF ClientRemoteClosed(res)
               THEN \E cres \in OpenResults :
                    /\ log' = [log EXCEPT ![w] = log[w] \o
                                  <<Op("SendMsg", counter[w]), Op("CloseAndReceive", -1)>>]
                    /\ tfail' = [tfail EXCEPT ![w] = tfail[w] \/ cres # Nil]
                    /\ pc' = [pc EXCEPT ![w] = DispatchAfterClient]
                    /\ UNCHANGED counter
               ELSE /\ log' = [log EXCEPT ![w] = Append(log[w], Op("SendMsg", counter[w]))]
                    /\ counter' = [counter EXCEPT ![w] = counter[w] + 1]
                    /\ tfail' = [tfail EXCEPT ![w] = tfail[w] \/ res # Nil]
                    /\ pc' = [pc EXCEPT ![w] =
                                 IF res = Nil THEN "clientSend" ELSE DispatchAfterClient]
    /\ UNCHANGED <<shared, lib, callsAtStop,
                   reqCounter, stopCh, crashed, i, err, ret, rErr, reqNum, inputs,
                   md, cachedMessages, inputIdx, terr, recvActive, recvDone, calls, got,
                   decodes, rets>>

(***************************************************************************)
(* makeRequest: the selection of the one input, server streaming, unary.   *)
(***************************************************************************)
\* an index that is not decremented: RequestNumber 1 selects the second message
inputIdxOfNoDec(n, inputsLen) == n % inputsLen

\* inputIdx := int((reqNum - 1) % int64(inputsLen))
inputIdxOf(n, inputsLen) == (n - 1) % inputsLen

\* if inputsLen == 0 return "no data provided for request"; inputIdx := ...
SelectInput(w) ==
    /\ ~crashed
    /\ pc[w] = "selectInput"
    /\ IF Len0(inputs[w]) = 0
       THEN /\ rErr' = [rErr EXCEPT ![w] = ErrNoData]
            /\ pc' = [pc EXCEPT ![w] = "append"]
            /\ UNCHANGED inputIdx
       ELSE /\ inputIdx' = [inputIdx EXCEPT ![w] = inputIdxOf(reqNum[w], Len0(inputs[w]))]
            /\ pc' = [pc EXCEPT ![w] = DispatchAfterSelect]
            /\ UNCHANGED rErr
    /\ UNCHANGED <<shared, lib, callsAtStop,
                   reqCounter, stopCh, crashed, i, err, ret, reqNum, inputs, md,
                   cachedMessages, counter, serr, terr, recvActive, recvDone, log, calls,
                   got, decodes, tfail, rets>>

\* makeServerStreamingRequest: str, err := InvokeRpcServerStream(ctx, mtd, input)
ServerOpen(w) ==
    /\ ~crashed
    /\ pc[w] = "serverOpen"
    /\ \E res \in OpenResults :
         /\ log' = [log EXCEPT ![w] = Append(log[w], Op("InvokeRpcServerStream", inputIdx[w]))]
         /\ terr' = [terr EXCEPT ![w] = res]
         /\ tfail' = [tfail EXCEPT ![w] = tfail[w] \/ res # Nil]
         /\ pc' = [pc EXCEPT ![w] = IF res = Nil THEN "serverRecv" ELSE DispatchAfterServer]
    /\ UNCHANGED <<shared, lib, callsAtStop,
                   reqCounter, stopCh, crashed, i, err, ret, rErr, reqNum, inputs,
                   md, cachedMessages, inputIdx, counter, serr, recvActive, recvDone, calls,
                   got, decodes, rets>>

\* makeServerStreamingRequest: RecvMsg until it returns an error; io.EOF is no
\* error of the helper.  A message received leaves the loop where it is.
ServerRecv(w) ==
    /\ ~crashed
    /\ pc[w] = "serverRecv"
    /\ \E r \in RecvResults :
         IF r = "msg"
         THEN UNCHANGED <<pc, terr, tfail>>
         ELSE /\ terr' = [terr EXCEPT ![w] = IF r = EOF THEN Nil ELSE r]
              /\ tfail' = [tfail EXCEPT ![w] = tfail[w] \/ r # EOF]
              /\ pc' = [pc EXCEPT ![w] = DispatchAfterServer]
    /\ UNCHANGED <<shared, lib, callsAtStop,
                   reqCounter, stopCh, crashed, i, err, ret, rErr, reqNum, inputs,
                   md, cachedMessages, inputIdx, counter, serr, recvActive, recvDone, log,
                   calls, got, decodes, rets>>

\* _, _ = w.stub.InvokeRpc(ctx, w.mtd, inputs[inputIdx]); return err
InvokeRpc(w) ==
    /\ ~crashed
    /\ pc[w] = "invokeRpc"
    /\ \E res \in OpenResults :
         /\ log' = [log EXCEPT ![w] = Append(log[w], Op("InvokeRpc", inputIdx[w]))]
         /\ tfail' = [tfail EXCEPT ![w] = tfail[w] \/ res # Nil]
         /\ terr' = [terr EXCEPT ![w] = IF res # Nil THEN res ELSE terr[w]]
         /\ rErr' = [rErr EXCEPT ![w] =
                        MakeRequestReturn(Nil, IF res # Nil THEN res ELSE terr[w])]
    /\ pc' = [pc EXCEPT ![w] = "append"]
    /\ UNCHANGED <<shared, lib, callsAtStop,
                   reqCounter, stopCh, crashed, i, err, ret, reqNum, inputs, md,
                   cachedMessages, inputIdx, counter, serr, recvActive, recvDone, calls,
                   got, decodes, rets>>

(***************************************************************************)
(* The specification.                                                      *)
(***************************************************************************)
Next ==
    \/ Stop
    \/ \E w \in Workers : RunWorkerLoop(w)
    \/ \E w \in Workers : Throttle(w)
    \/ \E w \in Workers : MakeRequestBegin(w)
    \/ \E w \in Workers : ResolveMessages(w)
    \/ \E w \in Workers : ResolveMetadata(w)
    \/ \E w \in Workers : BidiOpen(w)
    \/ \E w \in Workers : BidiSend(w)
    \/ \E w \in Workers : BidiWait(w)
    \/ \E w \in Workers : \E c \in recvActive[w] : BidiRecv(w, c)
    \/ \E w \in Workers : ClientOpen(w)
    \/ \E w \in Workers : ClientSend(w)
    \/ \E w \in Workers : SelectInput(w)
    \/ \E w \in Workers : ServerOpen(w)
    \/ \E w \in Workers : ServerRecv(w)
    \/ \E w \in Workers : InvokeRpc(w)
    \/ \E w \in Workers : AppendErr(w)

Spec == Init /\ [][Next]_vars

(***************************************************************************)
(* The template functions on their own: a list and a context are given,   *)
(* the functions are called on them, and a new context (the next call,    *)
(* with the next RequestNumber) replaces the old one.  No Worker runs.    *)
(***************************************************************************)
Elems == {"0", "1", "2"}
Values == UNION {[1..n -> Elems] : n \in 0..MaxLen}

IdleRun ==
    /\ nReq = [w \in Workers |-> 0]
    /\ config = [binary |-> FALSE, dryRun |-> FALSE, qps |-> 0,
                 data |-> EmptyText, metadata |-> EmptyText]
    /\ mtd = Unary
    /\ arrayJSONData = [w \in Workers |-> <<>>]

InitLib ==
    /\ IdleRun
    /\ InitWorkers
    /\ fnValues \in Values
    /\ \E r \in 0..MaxRn : fnTd = newCallTemplateData(Unary, 1, r)
    /\ fnDraws = <<>>
    /\ fnResult = NoResult

workers == <<shared, reqCounter, stopCh, crashed, pc, i, err, ret, rErr, reqNum, inputs,
             md, cachedMessages, inputIdx, counter, serr, terr, recvActive, recvDone,
             log, calls, rets, got, decodes, tfail, callsAtStop>>

\* {{RoundRobin values}}
CallRoundRobin ==
    /\ fnResult' = RoundRobin(fnTd, fnValues)
    /\ fnDraws' = <<>>
    /\ UNCHANGED <<workers, fnValues, fnTd>>

\* {{RandomSlice values}}: no draw on an empty list, else two draws
CallRandomSlice ==
    /\ IF Len(fnValues) < 1
       THEN /\ fnResult' = RandomSlice(fnValues, 0, 0)
            /\ fnDraws' = <<>>
       ELSE \E start \in randIntn(Len(fnValues)) : \E end \in randIntn(Len(fnValues)) :
                /\ fnResult' = RandomSlice(fnValues, start, end)
                /\ fnDraws' = <<start, end>>
    /\ UNCHANGED <<workers, fnValues, fnTd>>

\* the next call: newCallTemplateData with the next RequestNumber
NewContext ==
    /\ fnTd.RequestNumber < MaxRn
    /\ fnTd' = newCallTemplateData(Unary, 1, fnTd.RequestNumber + 1)
    /\ fnDraws' = <<>>
    /\ fnResult' = NoResult
    /\ UNCHANGED <<workers, fnValues>>

NextLib ==
    \/ CallRoundRobin
    \/ CallRandomSlice
    \/ NewContext

SpecLib == InitLib /\ [][NextLib]_vars

(***************************************************************************)
(* Helpers of the properties.                                              *)
(***************************************************************************)
InvokeOps == {"InvokeRpcBidiStream", "InvokeRpcClientStream", "InvokeRpcServerStream",
              "InvokeRpc"}
IsInvoke(e) == e.op \in InvokeOps
Invocations(w) == SelectSeq(log[w], IsInvoke)
OpNames(w) == {log[w][k].op : k \in 1..Len(log[w])}

\* the transport invocation that matches the streaming shape of the method
ShapeOp == IF mtd.cs /\ mtd.ss THEN "InvokeRpcBidiStream"
           ELSE IF mtd.cs THEN "InvokeRpcClientStream"
           ELSE IF mtd.ss THEN "InvokeRpcServerStream"
           ELSE "InvokeRpc"

InCall == {"makeRequest", "getMessages", "metadata", "bidiOpen", "bidiSend", "bidiWait",
           "clientOpen", "clientSend", "selectInput", "serverOpen", "serverRecv",
           "invokeRpc", "append"}

RECURSIVE SumCalls(_)
SumCalls(W) == IF W = {} THEN 0
               ELSE LET w == CHOOSE x \in W : TRUE IN calls[w] + SumCalls(W \ {w})

NotNil(e) == e # Nil

(***************************************************************************)
(* C1: every call that reaches the dispatch issues exactly one transport   *)
(* invocation, the one that matches the streaming shape of the method: no  *)
(* invocation of another shape is ever in the log of a call, there is     *)
(* never more than one, and a call that returns after transport activity  *)
(* has issued exactly the one of its shape.                               *)
(***************************************************************************)
C1_OneInvocationOfShape ==
    \A w \in Workers :
        /\ \A k \in 1..Len(Invocations(w)) : Invocations(w)[k].op = ShapeOp
        /\ Len(Invocations(w)) <= 1
        /\ (pc[w] = "append" /\ log[w] # <<>>) => Len(Invocations(w)) = 1

(***************************************************************************)
(* C2: the Workers that share the counter obtain exactly the              *)
(* RequestNumbers 1..T, T the number of makeRequest invocations so far:   *)
(* no value is handed out twice, none is skipped, whatever the            *)
(* interleaving and the outcome of the calls.                             *)
(***************************************************************************)
C2_RequestNumbersExact ==
    /\ UNION {got[w] : w \in Workers} = 1..SumCalls(Workers)
    /\ \A w \in Workers : Cardinality(got[w]) = calls[w]
    /\ \A v, w \in Workers : v # w => got[v] \cap got[w] = {}
    /\ reqCounter = SumCalls(Workers)

\* the whole pool has run to the end, the Workers interleaved (the Worker that
\* obtained number 1 also obtained the last one), with failing calls
C2_Witness ==
    /\ \A w \in Workers : pc[w] = "done" /\ calls[w] >= 1
    /\ \E w \in Workers : 1 \in got[w] /\ reqCounter \in got[w] /\ calls[w] < reqCounter
    /\ reqCounter = MaxReq + NumWorkers - 1
    /\ \E w \in Workers : err[w] # <<>>

(***************************************************************************)
(* C3: a stop signal observable at the check at the top of an iteration   *)
(* stops the Worker: it makes no call in that iteration, a stopped Worker *)
(* stays stopped and makes no call, and a Worker stops only at the top of *)
(* an iteration, never inside a call.                                     *)
(***************************************************************************)
C3_StopAtIterationTop ==
    [][\A w \in Workers :
        /\ (pc[w] = "loop" /\ i[w] < nReq[w] /\ stopCh > 0 /\ pc'[w] # pc[w])
              => (pc'[w] = "stopped" /\ calls'[w] = calls[w])
        /\ pc[w] = "stopped" => (pc'[w] = "stopped" /\ calls'[w] = calls[w])
        /\ (pc'[w] = "stopped" /\ pc[w] # "stopped") => pc[w] = "loop"]_vars

\* one Worker has stopped before its last call while another, with the stop
\* signal waiting for it, is inside a call
C3_Witness ==
    \E v, w \in Workers :
        /\ pc[v] = "stopped" /\ calls[v] = 1 /\ nReq[v] = MaxReq
        /\ pc[w] \in InCall /\ stopCh > 0

(***************************************************************************)
(* C4: a Worker whose loop runs to its end has invoked makeRequest        *)
(* exactly nReq times, whatever the calls returned, and returns the       *)
(* aggregate of exactly the errors its calls returned, in order (nil if   *)
(* none failed).                                                          *)
(***************************************************************************)
C4_LoopRunsAllCalls ==
    \A w \in Workers :
        pc[w] = "done" =>
            /\ calls[w] = nReq[w]
            /\ Len(rets[w]) = nReq[w]
            /\ Cardinality(got[w]) = nReq[w]
            /\ ret[w] = SelectSeq(rets[w], NotNil)

\* a run in which the first call succeeded and the second failed
C4_Witness ==
    \E w \in Workers :
        /\ pc[w] = "done" /\ nReq[w] = MaxReq
        /\ rets[w][1] = Nil /\ rets[w][MaxReq] # Nil
        /\ ret[w] # <<>>

(***************************************************************************)
(* C5 (as stated): every transport-level failure of a call is returned by  *)
(* makeRequest: a call during which a transport operation failed returns   *)
(* an error.                                                               *)
(***************************************************************************)
C5_TransportFailureReturned ==
    \A w \in Workers : (pc[w] = "append" /\ tfail[w]) => rErr[w] # Nil

(***************************************************************************)
(* C5 (amended): no transport-level failure is returned by makeRequest.    *)
(* A call that reached the dispatch returns nil, or the "no data provided" *)
(* error when no message was resolved, whatever the transport operations   *)
(* returned; the aggregate of runWorker holds only message-resolution,     *)
(* metadata and no-data errors.                                            *)
(***************************************************************************)
OwnErrors == {ErrData, ErrMetadata, ErrNoData}
C5_TransportFailureDiscarded ==
    \A w \in Workers :
        /\ (pc[w] = "append" /\ log[w] # <<>>)
              => rErr[w] = IF Len0(inputs[w]) = 0 THEN ErrNoData ELSE Nil
        /\ pc[w] = "append" => rErr[w] \in OwnErrors \cup {Nil}
        /\ \A k \in 1..Len(err[w]) : err[w][k] \in OwnErrors
        /\ \A k \in 1..Len(ret[w]) : ret[w][k] \in OwnErrors

\* a call with a failed transport operation has returned nil
C5_Witness ==
    \E w \in Workers : pc[w] = "append" /\ tfail[w] /\ rErr[w] = Nil

(***************************************************************************)
(* C6: a Worker that exits on the stop signal returns the aggregate of the *)
(* errors its calls returned so far.                                       *)
(***************************************************************************)
C6_StopReturnsAggregate ==
    \A w \in Workers : pc[w] = "stopped" => ret[w] = SelectSeq(rets[w], NotNil)

(***************************************************************************)
(* C7.  BidiReturned: makeBidiRequest has just returned from a call with   *)
(* inputs whose stream was opened.                                         *)
(***************************************************************************)
BidiReturned(w) ==
    /\ mtd.cs /\ mtd.ss
    /\ pc[w] = "clientOpen"
    /\ Len0(inputs[w]) > 0
    /\ terr[w] = Nil

(***************************************************************************)
(* C7 (as stated): makeBidiRequest returns only after CloseSend was called *)
(* and the receive goroutine of the call has ended, whatever the sends     *)
(* returned.                                                               *)
(***************************************************************************)
C7_BidiAlwaysWaits ==
    \A w \in Workers :
        BidiReturned(w) => ("CloseSend" \in OpNames(w) /\ calls[w] \notin recvActive[w])

(***************************************************************************)
(* C7 (amended): when every SendMsg returned nil, makeBidiRequest returns  *)
(* only after all inputs were sent, CloseSend was called and the receive   *)
(* goroutine has seen its terminal RecvMsg result and closed recvDone;     *)
(* when a SendMsg returned an error it returns at once, CloseSend is not   *)
(* called and the receive goroutine is not waited for.                     *)
(***************************************************************************)
C7_BidiWaitsUnlessSendFailed ==
    \A w \in Workers :
        BidiReturned(w) =>
            IF serr[w] = Nil
            THEN /\ "CloseSend" \in OpNames(w)
                 /\ counter[w] = Len0(inputs[w])
                 /\ recvDone[w]
                 /\ calls[w] \notin recvActive[w]
            ELSE "CloseSend" \notin OpNames(w)

\* a bidi call that sent all its messages has returned
C7_Witness ==
    \E w \in Workers :
        BidiReturned(w) /\ serr[w] = Nil /\ counter[w] = ArrayLen /\ recvDone[w]

(***************************************************************************)
(* C8: a call of a client-streaming or bidirectional method with no        *)
(* resolved input, once it has closed the send side of its stream, has     *)
(* sent no message and completes without an error.                         *)
(***************************************************************************)
C8_EmptyInputNoError ==
    \A w \in Workers :
        (/\ mtd.cs /\ pc[w] = "append" /\ Len0(inputs[w]) = 0
         /\ OpNames(w) \cap {"CloseSend", "CloseAndReceive"} # {})
            => (rErr[w] = Nil /\ "SendMsg" \notin OpNames(w))

(***************************************************************************)
(* C9: in a client-streaming call, when SendMsg returns io.EOF the Worker  *)
(* calls CloseAndReceive, sends nothing more on the stream (the stream's   *)
(* operations are the sends of messages 0..counter, in order, then the one *)
(* CloseAndReceive), and the call returns no error.                        *)
(***************************************************************************)
AfterClient == {"selectInput", "serverOpen", "serverRecv", "invokeRpc", "append"}
IsClientOp(e) == e.op \in {"SendMsg", "CloseAndReceive"}
ClientStart(w) == CHOOSE k \in 1..Len(log[w]) : log[w][k].op = "InvokeRpcClientStream"
ClientOps(w) == SelectSeq(SubSeq(log[w], ClientStart(w) + 1, Len(log[w])), IsClientOp)

C9_RemoteClosureClosesStream ==
    \A w \in Workers :
        (mtd.cs /\ pc[w] \in AfterClient /\ serr[w] = EOF) =>
            LET c == ClientOps(w)
            IN  /\ counter[w] < Len0(inputs[w])
                /\ Len(c) = counter[w] + 2
                /\ \A k \in 1..(counter[w] + 1) : c[k] = Op("SendMsg", k - 1)
                /\ c[Len(c)] = Op("CloseAndReceive", -1)
                /\ pc[w] = "append" => rErr[w] = Nil

\* the remote side closed the stream at the first of several messages, and the
\* call has returned
C9_Witness ==
    \E w \in Workers :
        /\ mtd.cs /\ ~mtd.ss /\ pc[w] = "append" /\ serr[w] = EOF
        /\ counter[w] = 0 /\ Len0(inputs[w]) = ArrayLen /\ rErr[w] = Nil

(***************************************************************************)
(* C10: in binary mode, when decoding succeeds, a Worker runs the binary   *)
(* decoder once, on its first call; every call uses the identical list,    *)
(* the one in the Worker's cache; the cache of a Worker only ever holds    *)
(* the list that Worker decoded.  Without binary mode nothing is cached.   *)
(***************************************************************************)
C10_BinaryDecodedOnce ==
    \A w \in Workers :
        /\ (config.binary /\ config.data.body # "garbage") =>
              /\ decodes[w] <= 1
              /\ ~inputs[w].nil =>
                    (decodes[w] = 1 /\ inputs[w] = cachedMessages[w])
        /\ ~cachedMessages[w].nil => (config.binary /\ cachedMessages[w].id = <<w, 1>>)
        /\ ~config.binary => decodes[w] = 0

\* the second call of a Worker has got its messages from the cache, while
\* another Worker holds its own decoded list
C10_Witness ==
    \E v, w \in Workers :
        /\ v # w /\ calls[w] = MaxReq /\ pc[w] = "metadata"
        /\ decodes[w] = 1 /\ inputs[w] = cachedMessages[w] /\ inputs[w].id = <<w, 1>>
        /\ ~cachedMessages[v].nil /\ cachedMessages[v].id = <<v, 1>>

(***************************************************************************)
(* C11: payload templating never fails a call.  For a non-empty payload    *)
(* text whose expansion fails, at parse time or at evaluation time, the    *)
(* process does not die in the message resolution of the call, and the     *)
(* messages of the call are decoded from the text unchanged.               *)
(***************************************************************************)
FailsExpansion(t) == t.action \in {"missing", "malformed"}
C11_PayloadTemplatingNeverFails ==
    \A w \in Workers :
        LET d == inputDataOf(w, reqNum[w])
        IN  (~config.binary /\ reqNum[w] > 0 /\ TextLen(d) > 0 /\ FailsExpansion(d)) =>
                /\ ~(crashed /\ pc[w] = "getMessages")
                /\ \A k \in 1..Len0(inputs[w]) : inputs[w].msgs[k].src = d

(***************************************************************************)
(* C12: when the expanded metadata text of the run does not decode as a    *)
(* JSON object, no call issues a transport operation or reaches the        *)
(* dispatch; a call whose messages were resolved returns the metadata      *)
(* error, and the Worker goes on with its next iteration (every call that  *)
(* returned has advanced the loop).                                        *)
(***************************************************************************)
DispatchPcs == {"bidiOpen", "bidiSend", "bidiWait", "clientOpen", "clientSend",
                "selectInput", "serverOpen", "serverRecv", "invokeRpc"}
MetadataUnparseable ==
    /\ TextLen(config.metadata) > 0
    /\ config.metadata.action \in {"none", "field"}
    /\ config.metadata.body # "object"

C12_MetadataParseFailureReturned ==
    \A w \in Workers :
        MetadataUnparseable =>
            /\ log[w] = <<>>
            /\ pc[w] \notin DispatchPcs
            /\ md[w] = NilMap
            /\ (pc[w] = "append" /\ ~config.dryRun /\ rErr[w] # ErrData)
                  => rErr[w] = ErrMetadata
            /\ ~config.dryRun =>
                  \A k \in 1..Len(rets[w]) : rets[w][k] \in {ErrData, ErrMetadata}
            /\ Len(rets[w]) = i[w]

\* the first call returned the metadata error for a text that was expanded, the
\* Worker made its second call, and that call returns the same error
C12_Witness ==
    \E w \in Workers :
        /\ MetadataUnparseable /\ config.metadata.action = "field"
        /\ rets[w] = <<ErrMetadata>> /\ calls[w] = 2
        /\ pc[w] = "append" /\ rErr[w] = ErrMetadata

(***************************************************************************)
(* C13 (as stated): when the expansion of the metadata template fails, at  *)
(* parse time or at evaluation time, makeRequest returns an error: the     *)
(* process does not die, the call is not dispatched, issues no transport   *)
(* operation and attaches no metadata, and a call whose messages were      *)
(* resolved returns an error.                                              *)
(***************************************************************************)
MetadataExpansionFails == TextLen(config.metadata) > 0 /\ FailsExpansion(config.metadata)
C13_MetadataExpansionFailureSurfaced ==
    \A w \in Workers :
        MetadataExpansionFails =>
            /\ ~(crashed /\ pc[w] = "metadata")
            /\ pc[w] \notin DispatchPcs
            /\ log[w] = <<>>
            /\ md[w] = NilMap
            /\ (pc[w] = "append" /\ ~config.dryRun) => rErr[w] # Nil

(***************************************************************************)
(* C13 (amended): an evaluation failure of the metadata template is not    *)
(* surfaced: the unexpanded text is decoded in place of the expansion, and *)
(* when it decodes the call is dispatched with the metadata of the         *)
(* unexpanded text and returns no metadata error.  A parse failure of the  *)
(* metadata template returns no error either: the process dies in the      *)
(* metadata step, so no call gets past it, none issues a transport         *)
(* operation, and outside dry-run only calls whose message resolution      *)
(* failed return.                                                          *)
(***************************************************************************)
C13_MetadataExpansionFailureNotSurfaced ==
    \A w \in Workers :
        /\ (TextLen(config.metadata) > 0 /\ config.metadata.action = "missing"
            /\ config.metadata.body = "object") =>
              /\ (pc[w] \in DispatchPcs \/ log[w] # <<>>) => md[w] = config.metadata
              /\ pc[w] = "append" => rErr[w] \in {Nil, ErrData, ErrNoData}
              /\ \A k \in 1..Len(rets[w]) : rets[w][k] \in {Nil, ErrData, ErrNoData}
        /\ (TextLen(config.metadata) > 0 /\ config.metadata.action = "malformed") =>
              /\ pc[w] \notin DispatchPcs
              /\ log[w] = <<>>
              /\ md[w] = NilMap
              /\ (pc[w] = "append" /\ ~config.dryRun) => rErr[w] = ErrData
              /\ ~config.dryRun => \A k \in 1..Len(rets[w]) : rets[w][k] = ErrData

\* a call whose metadata template failed at evaluation has invoked the transport
\* with the metadata of the unexpanded text and returns nil
C13_Witness ==
    \E w \in Workers :
        /\ config.metadata = Text("object", "missing")
        /\ pc[w] = "append" /\ log[w] # <<>>
        /\ md[w] = config.metadata /\ rErr[w] = Nil

(***************************************************************************)
(* C14: in a dry run no call of any Worker issues a transport operation:   *)
(* every makeRequest obtains a RequestNumber, resolves the messages and    *)
(* returns before the metadata is expanded and before the dispatch; it     *)
(* returns nil exactly when the messages were resolved.                    *)
(***************************************************************************)
C14_DryRunNoTransport ==
    config.dryRun =>
        /\ reqCounter = SumCalls(Workers)
        /\ \A w \in Workers :
              /\ log[w] = <<>>
              /\ pc[w] \notin DispatchPcs \cup {"metadata"}
              /\ md[w] = NilMap
              /\ Cardinality(got[w]) = calls[w]
              /\ pc[w] = "append" =>
                    rErr[w] = IF inputs[w].nil THEN ErrData ELSE Nil
              /\ \A k \in 1..Len(rets[w]) : rets[w][k] \in {Nil, ErrData}

\* a dry run of a streaming method whose metadata text does not decode: the
\* Worker has made all its calls and every one returned nil
C14_Witness ==
    \E w \in Workers :
        /\ config.dryRun /\ mtd.cs /\ config.metadata = Text("garbage", "none")
        /\ pc[w] = "done" /\ got[w] = 1..MaxReq
        /\ rets[w] = [k \in 1..MaxReq |-> Nil]

(***************************************************************************)
(* C15: a call of a unary method with k >= 1 resolved messages issues one  *)
(* transport operation, InvokeRpc with the message at index                *)
(* (RequestNumber - 1) mod k; a call with no resolved message returns the  *)
(* "no data provided" error and issues no transport operation; either way  *)
(* the loop goes on.                                                       *)
(***************************************************************************)
C15_UnaryOneMessage ==
    mtd = Unary =>
        \A w \in Workers :
            LET k == Len0(inputs[w])
            IN  /\ Len(log[w]) <= 1
                /\ log[w] # <<>> =>
                      /\ k >= 1
                      /\ log[w] = <<Op("InvokeRpc", (reqNum[w] - 1) % k)>>
                      /\ pc[w] = "append" /\ rErr[w] = Nil
                /\ (pc[w] = "append" /\ rErr[w] = Nil /\ ~config.dryRun) => log[w] # <<>>
                /\ pc[w] = "invokeRpc" => k >= 1
                /\ (pc[w] = "append" /\ rErr[w] = ErrNoData) => (k = 0 /\ log[w] = <<>>)
                /\ (pc[w] = "append" /\ ~inputs[w].nil /\ k = 0 /\ ~config.dryRun
                    /\ rErr[w] # ErrMetadata) => rErr[w] = ErrNoData
                /\ Len(rets[w]) = i[w]

\* the second call of a Worker has sent the second of several messages, after a
\* first call that returned nil
C15_Witness ==
    \E w \in Workers :
        /\ mtd = Unary /\ pc[w] = "append" /\ reqNum[w] = 2
        /\ Len0(inputs[w]) = ArrayLen /\ log[w] = <<Op("InvokeRpc", 1)>>
        /\ rets[w] = <<Nil>>

(***************************************************************************)
(* C16: the payload source of a call.  In a non-binary run of a method     *)
(* that is not client-streaming, a Worker with v >= 1 JSON variants        *)
(* resolves the messages of a call from the expansion of the variant at    *)
(* index (RequestNumber - 1) mod v; in every other case from config.data.  *)
(* The messages of the call, their number, and the decoding error of the   *)
(* call are those of that source and of no other.                          *)
(***************************************************************************)
ExpectedSource(w) ==
    IF ~config.binary /\ ~mtd.cs /\ Len(arrayJSONData[w]) >= 1
    THEN arrayJSONData[w][((reqNum[w] - 1) % Len(arrayJSONData[w])) + 1]
    ELSE config.data
Expanded(t, n) ==
    IF t.action = "field" THEN [body |-> t.body, action |-> "none", rn |-> n] ELSE t

C16_PayloadSourceSelected ==
    \A w \in Workers :
        (reqNum[w] > 0 /\ pc[w] # "getMessages") =>
            LET s == ExpectedSource(w)
                x == IF config.binary THEN s ELSE Expanded(s, reqNum[w])
            IN  /\ \A k \in 1..Len0(inputs[w]) : inputs[w].msgs[k].src = x
                /\ inputs[w].nil <=> s.body = "garbage"
                /\ (~inputs[w].nil /\ ~config.binary) => Len0(inputs[w]) = NumMessages(s)
                /\ pc[w] = "append" => (rErr[w] = ErrData <=> s.body = "garbage")

\* with two variants, the first call of the Worker used variant 0 and returned
\* nil, the second used variant 1, which does not decode, while config.data does
C16_Witness ==
    \E w \in Workers :
        /\ ~config.binary /\ ~mtd.cs /\ Len(arrayJSONData[w]) = 2
        /\ config.data = Text("array", "missing")
        /\ reqNum[w] = 2 /\ pc[w] = "append" /\ rErr[w] = ErrData
        /\ rets[w] = <<Nil>>

(***************************************************************************)
(* C17: RoundRobin(values) on a context with RequestNumber r returns       *)
(* values[r mod len(values)] for a non-empty list and an error for the     *)
(* empty list.  The context with RequestNumber r + len(values) selects the *)
(* same element, and the len(values) contexts r, r + 1, ... select every   *)
(* position of the list exactly once.                                      *)
(***************************************************************************)
Context(r) == newCallTemplateData(Unary, 1, r)
Positions(n) == [k \in 1..n |-> k]

C17_RoundRobinSelects ==
    fnResult.fn = "RoundRobin" =>
        LET n == Len(fnValues)
            r == fnTd.RequestNumber
        IN  IF n = 0
            THEN fnResult.err # Nil /\ fnResult.str = ""
            ELSE /\ fnResult.err = Nil
                 /\ fnResult.str = fnValues[(r % n) + 1]
                 /\ RoundRobin(Context(r + n), fnValues) = fnResult
                 /\ {RoundRobin(Context(r + j), Positions(n)).str : j \in 0..(n - 1)} = 1..n
                 /\ \A j \in 0..(n - 1) :
                       RoundRobin(Context(r + j), fnValues).str =
                           fnValues[RoundRobin(Context(r + j), Positions(n)).str]

\* on a list of MaxLen elements the context with RequestNumber MaxLen + 1 has
\* selected the second element, which differs from the first
C17_Witness ==
    /\ fnResult.fn = "RoundRobin" /\ fnResult.err = Nil
    /\ Len(fnValues) = MaxLen /\ fnTd.RequestNumber = MaxLen + 1
    /\ fnValues[1] # fnValues[2] /\ fnResult.str = fnValues[2]

(***************************************************************************)
(* C18: RandomSlice(values) on a non-empty list makes two draws, start and *)
(* end, in 0..len-1, and returns values[s:e] with 0 <= s < e <= len, a     *)
(* non-empty run of the list in its order: the draws swapped when          *)
(* start > end; when they coincide, end + 1 if both are 0, else start - 1; *)
(* nothing is drawn again.  On the empty list it returns an error.         *)
(***************************************************************************)
C18_RandomSliceNonEmpty ==
    fnResult.fn = "RandomSlice" =>
        LET n == Len(fnValues)
        IN  IF n = 0
            THEN fnResult.err # Nil /\ fnResult.slice = <<>> /\ fnDraws = <<>>
            ELSE /\ fnResult.err = Nil
                 /\ Len(fnDraws) = 2
                 /\ \A k \in 1..2 : fnDraws[k] \in 0..(n - 1)
                 /\ LET start == fnDraws[1]
                        end == fnDraws[2]
                        s == CASE start > end -> end
                               [] start = end /\ start # 0 -> start - 1
                               [] OTHER -> start
                        e == CASE start > end -> start
                               [] start = end /\ start = 0 -> end + 1
                               [] OTHER -> end
                    IN  /\ 0 <= s /\ s < e /\ e <= n
                        /\ Len(fnResult.slice) = e - s
                        /\ \A k \in 1..(e - s) : fnResult.slice[k] = fnValues[s + k]

\* both draws were the last index of a list of MaxLen elements: the slice is the
\* one element before the last
C18_Witness ==
    /\ fnResult.fn = "RandomSlice" /\ Len(fnValues) = MaxLen
    /\ fnDraws = <<MaxLen - 1, MaxLen - 1>>
    /\ fnResult.slice = <<fnValues[MaxLen - 1]>>

(***************************************************************************)
(* C19: the operations of makeClientStreamingRequest on its stream.  The   *)
(* messages are sent in the order of the input, from index 0, at most      *)
(* len(input) of them; CloseAndReceive is called at most once and is the   *)
(* last operation on the stream; when the helper has returned,             *)
(* CloseAndReceive was called if the stream was opened and every SendMsg   *)
(* returned nil or io.EOF.                                                 *)
(***************************************************************************)
IsSendMsg(e) == e.op = "SendMsg"
IsCloseAndReceive(e) == e.op = "CloseAndReceive"

C19_ClientStreamOrder ==
    \A w \in Workers :
        "InvokeRpcClientStream" \in OpNames(w) =>
            LET c == ClientOps(w)
                sends == SelectSeq(c, IsSendMsg)
                closes == SelectSeq(c, IsCloseAndReceive)
            IN  /\ Len(sends) <= Len0(inputs[w])
                /\ \A k \in 1..Len(sends) : sends[k] = Op("SendMsg", k - 1)
                /\ Len(closes) <= 1
                /\ Len(closes) = 1 => IsCloseAndReceive(c[Len(c)])
                /\ (pc[w] \in AfterClient /\ serr[w] \in {Nil, EOF}) => Len(closes) = 1

\* a client-streaming call has sent all its messages, in order, and closed
C19_Witness ==
    \E w \in Workers :
        /\ mtd.cs /\ ~mtd.ss /\ pc[w] = "append" /\ Len0(inputs[w]) = ArrayLen
        /\ "InvokeRpcClientStream" \in OpNames(w)
        /\ Len(ClientOps(w)) = ArrayLen + 1
        /\ IsCloseAndReceive(ClientOps(w)[ArrayLen + 1])

(***************************************************************************)
(* C20: once the stop signal is sent, a Worker begins at most one more     *)
(* makeRequest, the one of the iteration whose stop check it had already   *)
(* passed (it was waiting for its pacing tick or about to call); that call *)
(* and a call that was in progress are not cancelled: a Worker that has    *)
(* stopped has got the result of every call it began.                      *)
(***************************************************************************)
C20_AtMostOneCallAfterStop ==
    \A w \in Workers :
        callsAtStop[w] >= 0 =>
            /\ calls[w] <= callsAtStop[w] + 1
            /\ pc[w] = "stopped" => (Len(rets[w]) = calls[w] /\ i[w] = calls[w])

\* in a paced run a Worker that had passed its stop check when the signal was
\* sent has made its call, got its result and stopped before its last iteration
C20_Witness ==
    \E w \in Workers :
        /\ config.qps > 0 /\ callsAtStop[w] >= 0 /\ pc[w] = "stopped"
        /\ calls[w] = callsAtStop[w] + 1 /\ Len(rets[w]) = calls[w]
        /\ calls[w] < nReq[w]

(***************************************************************************)
(* C21: on a list of two or more elements RandomSlice never returns the    *)
(* last position of the list, whatever the two draws: the end bound of the *)
(* slice is at most len(values) - 1, so the whole list is never returned.  *)
(* On a list of one element it returns the list.                           *)
(***************************************************************************)
C21_RandomSliceOmitsLast ==
    (fnResult.fn = "RandomSlice" /\ Len(fnValues) >= 1) =>
        LET n == Len(fnValues)
            p == RandomSlice(Positions(n), fnDraws[1], fnDraws[2]).slice
        IN  /\ Len(p) = Len(fnResult.slice)
            /\ \A k \in 1..Len(p) : fnResult.slice[k] = fnValues[p[k]]
            /\ n >= 2 =>
                  /\ \A k \in 1..Len(p) : p[k] <= n - 1
                  /\ Len(fnResult.slice) <= n - 1
                  /\ fnResult.slice # fnValues
            /\ n = 1 => (p = <<1>> /\ fnResult.slice = fnValues)

\* the draws were the first and the last index of a list of MaxLen elements: the
\* slice is the list without its last element
C21_Witness ==
    /\ fnResult.fn = "RandomSlice" /\ Len(fnValues) = MaxLen
    /\ fnDraws = <<0, MaxLen - 1>>
    /\ fnResult.slice = SubSeq(fnValues, 1, MaxLen - 1)

=============================================================================
